---- MODULE Spec2Model ----
(***************************************************************************)
(* Model of the staking strategy optimizer (dynamic_strategy_optimizer.py) *)
(* and of the miner that drives it (enhanced_miner.py).                    *)
(*                                                                         *)
(* Units.  Fractions of the budget that the source writes as floats are    *)
(* exact rationals here.  Configuration values and volatilities are held   *)
(* in hundredths (0.25 is 25, 0.01 is 1).  An allocation map is a record   *)
(* [a |-> function from entity id to numerator, d |-> denominator], the    *)
(* value of entity k being a[k]/d.  Time is held in whole hours.           *)
(***************************************************************************)
EXTENDS Integers, Sequences, FiniteSets, TLC

VARIABLES
    max_allocation,      \* self.max_allocation, hundredths
    rebalance_threshold, \* self.rebalance_threshold, hundredths
    market,              \* rows of fetch_market_data(), one item per netuid
    metrics_items,       \* list(metrics.items()), argument of rank_subnets
    ranked_subnets,      \* argument of calculate_optimal_allocation
    metrics,             \* argument of calculate_optimal_allocation
    allocations,         \* value returned by calculate_optimal_allocation
    stages,              \* its local allocations after line 235 and line 241
    prices,              \* one entity's price column, sorted by date
    record,              \* metrics[netuid] of that entity, or None
    phase,               \* position of the pure-function specifications
    now,                 \* datetime.now() / time.time(), hours
    last_rebalance,      \* self.last_rebalance: {} is None, {t} is time t
    current_strategy,    \* current_strategy of the running evaluation
    new_strategy,        \* new_strategy of the running evaluation
    force_rebalance,     \* force_rebalance of the running optimize_strategy
    decision,            \* should_rebalance as computed by the evaluation
    file,                \* the strategy file of the hotkey
    pc,                  \* position of the miner in optimize_strategy
    last_optimization,   \* self.last_optimization: {} is None
    strategy_history,    \* self.strategy_history: per entry its timestamp,
                         \* its reason and whether old_strategy was empty
    last_log,            \* the last line optimize_strategy logged
    cli_pc,              \* "off", or "exit" where main() is about to return
    cli_last_rebalance,  \* last_rebalance of the optimizer main() built
    step,                \* step of run_enhanced_miner
    loop_pc,             \* position of run_enhanced_miner in its loop
    task_runs,           \* per scheduled task, its runs at this step value
    retried              \* an iteration with this step value has raised

vars == <<max_allocation, rebalance_threshold, market, metrics_items,
          ranked_subnets, metrics,
          allocations, stages, prices, record, phase, now, last_rebalance,
          current_strategy, new_strategy, force_rebalance, decision, file, pc,
          last_optimization, strategy_history, last_log, cli_pc,
          cli_last_rebalance, step, loop_pc, task_runs, retried>>

policyVars == <<now, last_rebalance, current_strategy, new_strategy,
                force_rebalance, decision>>
minerVars == <<file, pc, last_optimization, strategy_history, last_log,
               cli_pc, cli_last_rebalance>>

allocVars == <<ranked_subnets, metrics, allocations, stages>>
rankVars == <<market, metrics_items>>
metricVars == <<prices, record>>
configVars == <<max_allocation, rebalance_threshold>>
loopVars == <<step, loop_pc, task_runs, retried>>

(***************************************************************************)
(* Bounds of the model.                                                    *)
(***************************************************************************)
MaxId == 4
MaxRanked == 5
MaxSeries == 6
MaxPrice == 2
MaxKey == 1
MaxTime == 6
MaxHistory == 2

Ids == 0..MaxId
\* volatilities offered to the allocator, hundredths; 0 and 1 sit at or
\* below the 0.01 floor
Vols == {0, 1, 24}
MaxAllocations == {25, 50}

(***************************************************************************)
(* Program constants, hundredths unless said otherwise.                    *)
(***************************************************************************)
min_allocation == 2
cash_allocation == 5
max_subnets == 10
MinVolatility == 1
CashRemainder == 1
CashKey == 0
One == 100

\* Python's None where a record or a map is expected
None == [none |-> TRUE]

\* a timestamp field: {} is None, {t} is the time t
Never == {}
At(t) == {t}
TimeOf(ts) == CHOOSE t \in ts : TRUE

(***************************************************************************)
(* Arithmetic helpers.                                                     *)
(***************************************************************************)
Max(a, b) == IF a >= b THEN a ELSE b
Min(a, b) == IF a <= b THEN a ELSE b
Abs(a) == IF a >= 0 THEN a ELSE -a

RECURSIVE GCD(_, _)
GCD(a, b) == IF b = 0 THEN a ELSE GCD(b, a % b)

LCM(a, b) == (a * b) \div GCD(a, b)

RECURSIVE SumOver(_, _)
SumOver(f, S) ==
    IF S = {} THEN 0
    ELSE LET k == CHOOSE x \in S : TRUE
         IN f[k] + SumOver(f, S \ {k})

RECURSIVE GcdOver(_, _)
GcdOver(f, S) ==
    IF S = {} THEN 0
    ELSE LET k == CHOOSE x \in S : TRUE
         IN GCD(f[k], GcdOver(f, S \ {k}))

RECURSIVE LcmOver(_, _)
LcmOver(f, S) ==
    IF S = {} THEN 1
    ELSE LET k == CHOOSE x \in S : TRUE
         IN LCM(f[k], LcmOver(f, S \ {k}))

Range(s) == {s[i] : i \in DOMAIN s}

(***************************************************************************)
(* Allocation maps.                                                        *)
(***************************************************************************)
EmptyStrategy == [a |-> <<>>, d |-> 1]

IsEmpty(s) == DOMAIN s.a = {}

\* the same map over the smallest denominator
Normalize(s) ==
    IF IsEmpty(s) THEN EmptyStrategy
    ELSE LET g == GCD(GcdOver(s.a, DOMAIN s.a), s.d)
         IN [a |-> [k \in DOMAIN s.a |-> s.a[k] \div g], d |-> s.d \div g]

\* sum(allocations.values()), as a numerator over s.d
Total(s) == SumOver(s.a, DOMAIN s.a)

(***************************************************************************)
(* calculate_optimal_allocation, lines 205-248.                            *)
(***************************************************************************)
\* ranked_subnets[:self.max_subnets]
selected_subnets(ranked) == SubSeq(ranked, 1, Min(max_subnets, Len(ranked)))

\* keys of inv_vol_weights: the selected entities found in the metrics
weighted(ranked, mtr) == Range(selected_subnets(ranked)) \cap DOMAIN mtr

\* max(metrics[netuid]['volatility'], 0.01)
vol(mtr, netuid) == Max(mtr[netuid].volatility, MinVolatility)

\* inv_vol = 1.0 / vol for every weighted entity, all multiplied by the
\* least common multiple of the volatilities: only the ratios
\* inv_vol / total_inv_vol are used
inv_vol_weights_byVolatility(ranked, mtr) ==
    [n \in weighted(ranked, mtr) |-> vol(mtr, n)]

inv_vol_weights(ranked, mtr) ==
    LET W == weighted(ranked, mtr)
        L == LcmOver([n \in W |-> vol(mtr, n)], W)
    IN [n \in W |-> L \div vol(mtr, n)]

total_inv_vol(ranked, mtr) ==
    SumOver(inv_vol_weights(ranked, mtr), weighted(ranked, mtr))

total_risk_budget == One - cash_allocation

\* denominator of the clamped allocations: 100 * total_inv_vol
ClampDen(ranked, mtr) ==
    IF weighted(ranked, mtr) = {} THEN One
    ELSE One * total_inv_vol(ranked, mtr)

\* allocation = max(min_allocation, min(max_allocation, base_allocation)),
\* as numerators over ClampDen
clamped(ranked, mtr, maxalloc) ==
    LET T == total_inv_vol(ranked, mtr)
        w == inv_vol_weights(ranked, mtr)
    IN [n \in weighted(ranked, mtr) |->
           Max(min_allocation * T,
               Min(maxalloc * T, w[n] * total_risk_budget))]

total_allocated(ranked, mtr, maxalloc) ==
    SumOver(clamped(ranked, mtr, maxalloc), weighted(ranked, mtr))

\* total_allocated > total_risk_budget
ShrinkRuns(ranked, mtr, maxalloc) ==
    total_allocated(ranked, mtr, maxalloc)
        > total_risk_budget * total_inv_vol(ranked, mtr)

\* allocations after the proportional shrink of lines 238-241
normalized(ranked, mtr, maxalloc) ==
    LET c == clamped(ranked, mtr, maxalloc)
        tot == total_allocated(ranked, mtr, maxalloc)
    IN IF ShrinkRuns(ranked, mtr, maxalloc)
       THEN [a |-> [n \in DOMAIN c |-> c[n] * total_risk_budget],
             d |-> One * tot]
       ELSE [a |-> c, d |-> ClampDen(ranked, mtr)]

\* allocations[0] = remaining when remaining > 0.01, lines 244-246
AddCash(s) ==
    LET remaining == s.d - Total(s)
    IN IF remaining * One > CashRemainder * s.d
       THEN [a |-> [k \in DOMAIN s.a \cup {CashKey} |->
                      IF k = CashKey THEN remaining ELSE s.a[k]],
             d |-> s.d]
       ELSE s

calculate_optimal_allocation_noEmptyGuard(ranked, mtr, maxalloc) ==
    Normalize(AddCash(normalized(ranked, mtr, maxalloc)))

calculate_optimal_allocation(ranked, mtr, maxalloc) ==
    IF ranked = <<>> \/ DOMAIN mtr = {} THEN EmptyStrategy
    ELSE Normalize(AddCash(normalized(ranked, mtr, maxalloc)))

\* the local allocations where the clamping loop ends (line 235) and where
\* the proportional shrink ends (line 241); None where line 208 returns
allocation_stages(ranked, mtr, maxalloc) ==
    IF ranked = <<>> \/ DOMAIN mtr = {} THEN None
    ELSE [clamped |-> Normalize([a |-> clamped(ranked, mtr, maxalloc),
                                 d |-> ClampDen(ranked, mtr)]),
          shrunk |-> Normalize(normalized(ranked, mtr, maxalloc))]

\* the variables a specification does not use
AllocIdle ==
    /\ ranked_subnets = <<>> /\ metrics = <<>>
    /\ allocations = None /\ stages = None
MetricIdle == prices = <<>> /\ record = None
RankIdle == market = <<>> /\ metrics_items = <<>>
PolicyIdle ==
    /\ now = 0 /\ last_rebalance = Never
    /\ current_strategy = EmptyStrategy /\ new_strategy = EmptyStrategy
    /\ force_rebalance = FALSE /\ decision = FALSE
NoRuns == [optimize |-> 0, monitor |-> 0, update |-> 0]
LoopIdle ==
    /\ step = 0 /\ loop_pc = "off" /\ task_runs = NoRuns /\ retried = FALSE
MinerIdle ==
    /\ file = None /\ pc = "off" /\ last_optimization = Never
    /\ strategy_history = <<>> /\ last_log = ""
    /\ cli_pc = "off" /\ cli_last_rebalance = Never

(***************************************************************************)
(* Specification of the allocator: the inputs are the ranked lists and     *)
(* metrics mappings generate_strategy can pass (line 295-299): a non-empty *)
(* mapping and a ranking of some of its entities.                          *)
(***************************************************************************)
\* the ids of S in increasing order
RECURSIVE Ascending(_)
Ascending(S) ==
    IF S = {} THEN <<>>
    ELSE LET m == CHOOSE x \in S : \A y \in S : x <= y
         IN <<m>> \o Ascending(S \ {m})

Rotate(s, i) == [j \in 1..Len(s) |-> s[((j + i - 1) % Len(s)) + 1]]

\* rankings of up to MaxRanked entities of S: every rotation of the
\* increasing order, so that each entity takes each rank
RankedLists(S) ==
    {Rotate(Ascending(T), i) :
        T \in {U \in SUBSET S : Cardinality(U) <= MaxRanked}, i \in 0..MaxId}

MetricsOver(S) == [S -> [volatility : Vols]]

InitAlloc ==
    /\ max_allocation \in MaxAllocations
    /\ rebalance_threshold = 5
    /\ ranked_subnets \in RankedLists(Ids)
    /\ metrics \in IF ranked_subnets # <<>>
                    THEN MetricsOver(Range(ranked_subnets))
                    ELSE UNION {MetricsOver({e}) : e \in Ids}
    /\ allocations = None /\ stages = None
    /\ MetricIdle /\ PolicyIdle /\ MinerIdle /\ LoopIdle /\ RankIdle
    /\ phase = "input"

Allocate ==
    /\ phase = "input"
    /\ allocations' =
           calculate_optimal_allocation(ranked_subnets, metrics, max_allocation)
    /\ stages' = allocation_stages(ranked_subnets, metrics, max_allocation)
    /\ phase' = "done"
    /\ UNCHANGED <<configVars, loopVars, ranked_subnets, metrics, metricVars,
                   policyVars, minerVars, rankVars>>

NextAlloc == Allocate

\* |x| / d <= 10^-6
ToleranceDen == 1000 * 1000
WithinTolerance(x, d) == Abs(x) <= d \div ToleranceDen

NonCash(s) == DOMAIN s.a \ {CashKey}

\* C5: for every non-empty ranked list the values of the returned map, cash
\* entry included, sum to 1.0 within tolerance.
C5_SumIsOne ==
    (phase = "done" /\ ranked_subnets # <<>>) =>
        WithinTolerance(Total(allocations) - allocations.d, allocations.d)

\* C6: every non-cash entry of the returned map lies in
\* [min_allocation, max_allocation] unless the proportional shrink ran; when
\* it ran, the non-cash entries sum to total_risk_budget within tolerance
\* and none exceeds max_allocation.
C6_EntryBounds ==
    (phase = "done" /\ ranked_subnets # <<>>) =>
        LET s == allocations
        IN IF ~ShrinkRuns(ranked_subnets, metrics, max_allocation)
           THEN \A k \in NonCash(s) :
                    /\ min_allocation * s.d <= s.a[k] * One
                    /\ s.a[k] * One <= max_allocation * s.d
           ELSE /\ WithinTolerance(SumOver(s.a, NonCash(s)) * One
                                      - total_risk_budget * s.d, One * s.d)
                /\ \A k \in NonCash(s) : s.a[k] * One <= max_allocation * s.d

\* a[k] / d of one map against another
SameShare(s, t, k) == s.a[k] * t.d = t.a[k] * s.d

\* C17: the cash entry never overwrites the allocation of a selected
\* entity: every selected entity found in the metrics has, in the returned
\* map, the allocation it had after the clamp and the shrink.
C17_CashKeyReserved ==
    (phase = "done" /\ stages # None) =>
        \A k \in DOMAIN stages.shrunk.a :
            /\ k \in DOMAIN allocations.a
            /\ SameShare(allocations, stages.shrunk, k)

\* the volatility the allocator uses for an entity, floor applied
FlooredVol(k) == Max(metrics[k].volatility, 1)

\* s gives k1 no less than k2
NoLess(s, k1, k2) == s.a[k1] >= s.a[k2]

SpecAlloc == InitAlloc /\ [][NextAlloc]_vars


(***************************************************************************)
(* calculate_performance_metrics, lines 82-160, for the rows of one        *)
(* entity.  A return is the pair [n, d] standing for                       *)
(* (prices[i+1] - prices[i]) / prices[i].                                  *)
(***************************************************************************)
min_rows == 5

\* np.diff(prices) / prices[:-1]
RawReturns(p) ==
    [i \in 1..(Len(p) - 1) |-> [n |-> p[i + 1] - p[i], d |-> p[i]]]

\* np.isfinite: x / 0 is inf or nan
IsFinite(r) == r.d # 0

RECURSIVE SelectSeq2(_, _)
SelectSeq2(s, i) ==
    IF i > Len(s) THEN <<>>
    ELSE (IF IsFinite(s[i]) THEN <<s[i]>> ELSE <<>>) \o SelectSeq2(s, i + 1)

\* returns[np.isfinite(returns)]
FiniteReturns(p) == SelectSeq2(RawReturns(p), 1)

\* np.all(prices == 0)
AllZero(p) == \A i \in DOMAIN p : p[i] = 0

(***************************************************************************)
(* Numbers of the metrics.  A float is the exact rational [n, d], d > 0,   *)
(* in lowest terms, or NaN, or Inf (float('inf')).  A value the code gets  *)
(* from a root (sharpe, daily_return, composite_score) is held by its      *)
(* sign, and sharpe by its square as well.                                 *)
(***************************************************************************)
NaN == [nan |-> TRUE]
Inf == [inf |-> TRUE]

Rat(n, d) ==
    LET g == GCD(Abs(n), Abs(d))
        sg == IF d < 0 THEN -1 ELSE 1
    IN [n |-> (sg * n) \div g, d |-> (sg * d) \div g]

Zero == Rat(0, 1)
Unit == Rat(1, 1)

RatAdd(x, y) ==
    LET g == GCD(x.d, y.d)
        l == (x.d \div g) * y.d
    IN Rat(x.n * (l \div x.d) + y.n * (l \div y.d), l)
RatNeg(x) == [n |-> -x.n, d |-> x.d]
RatSub(x, y) == RatAdd(x, RatNeg(y))
RatMul(x, y) == Rat(x.n * y.n, x.d * y.d)
RatDiv(x, y) == Rat(x.n * y.d, x.d * y.n)
RatAbs(x) == [n |-> Abs(x.n), d |-> x.d]
RatLess(x, y) == x.n * y.d < y.n * x.d
RatMax(x, y) == IF RatLess(x, y) THEN y ELSE x
RatMin(x, y) == IF RatLess(y, x) THEN y ELSE x
Sign(x) == IF x.n > 0 THEN 1 ELSE IF x.n < 0 THEN -1 ELSE 0

RECURSIVE SumRat(_)
SumRat(s) == IF s = <<>> THEN Zero ELSE RatAdd(Head(s), SumRat(Tail(s)))

\* np.mean of a non-empty array
MeanRat(s) == RatDiv(SumRat(s), Rat(Len(s), 1))

\* the largest v with v * v <= x, searched between lo and hi
RECURSIVE IsqrtIn(_, _, _)
IsqrtIn(x, lo, hi) ==
    IF lo >= hi THEN lo
    ELSE LET mid == (lo + hi + 1) \div 2
         IN IF mid <= x \div mid THEN IsqrtIn(x, mid, hi)
            ELSE IsqrtIn(x, lo, mid - 1)
Isqrt(x) == IF x = 0 THEN 0 ELSE IsqrtIn(x, 1, x)

\* returns as rationals
ReturnValues(p) ==
    LET r == FiniteReturns(p) IN [i \in DOMAIN r |-> Rat(r[i].n, r[i].d)]

\* np.mean((returns - mean) ** 2), the square of np.std(returns)
Variance(r) ==
    LET mean == MeanRat(r)
    IN MeanRat([i \in DOMAIN r |->
                   RatMul(RatSub(r[i], mean), RatSub(r[i], mean))])

\* np.cumprod(1 + returns)
RECURSIVE cumulative(_, _)
cumulative(r, k) ==
    IF k = 1 THEN RatAdd(Unit, r[1])
    ELSE RatMul(cumulative(r, k - 1), RatAdd(Unit, r[k]))

\* np.maximum.accumulate(cumulative)
RECURSIVE peak(_, _)
peak(r, k) ==
    IF k = 1 THEN cumulative(r, 1)
    ELSE RatMax(peak(r, k - 1), cumulative(r, k))

\* np.min((cumulative - peak) / peak), lines 112-115: 0 / 0 is NaN, and it
\* arises in every position or in none
MinDrawdown(r) ==
    IF Len(r) = 0 THEN Zero
    ELSE IF peak(r, 1).n = 0 THEN NaN
    ELSE LET dd == [k \in DOMAIN r |->
                       RatDiv(RatSub(cumulative(r, k), peak(r, k)), peak(r, k))]
         IN CHOOSE x \in Range(dd) : \A y \in Range(dd) : ~RatLess(y, x)

\* the subset of the returns a mask selects
Masked(r, sgn) == SelectSeq(r, LAMBDA x : Sign(x) = sgn)

\* lines 122-123.  avg_loss is the mean of the negative returns whenever
\* some return is not positive: np.mean of the empty array, NaN, when the
\* returns that are not positive are all zero
avg_win_of(r) ==
    IF Len(Masked(r, 1)) > 0 THEN MeanRat(Masked(r, 1)) ELSE Zero
avg_loss_of(r) ==
    IF Len(r) - Len(Masked(r, 1)) > 0
    THEN (IF Masked(r, -1) = <<>> THEN NaN ELSE MeanRat(Masked(r, -1)))
    ELSE Zero

\* line 124: NaN != 0 holds, and x / NaN is NaN
profit_factor_of(avg_win, avg_loss) ==
    IF avg_loss = NaN THEN NaN
    ELSE IF avg_loss # Zero THEN RatAbs(RatDiv(avg_win, avg_loss))
    ELSE Inf

\* line 127: NaN > 0 does not hold, and x / inf is 0
kelly_of(win_rate, profit_factor) ==
    IF profit_factor = NaN THEN Zero
    ELSE IF profit_factor = Inf THEN win_rate
    ELSE IF profit_factor.n > 0
         THEN RatSub(win_rate, RatDiv(RatSub(Unit, win_rate), profit_factor))
    ELSE Zero

\* the record of lines 106-158 for the prices p, without the columns read
\* from the emission and weight data
record_of(p) ==
    LET returns == ReturnValues(p)
        total_days == Len(returns)
        positive_days == Len(Masked(returns, 1))
        total_return == IF p[1] > 0 THEN Rat(p[Len(p)] - p[1], p[1]) ELSE Zero
        variance == IF total_days > 1 THEN Variance(returns) ELSE Zero
        mean == IF total_days > 0 THEN MeanRat(returns) ELSE Zero
        min_drawdown == MinDrawdown(returns)
        max_drawdown == IF min_drawdown = NaN THEN NaN ELSE RatAbs(min_drawdown)
        win_rate == IF total_days > 0 THEN Rat(positive_days, total_days)
                    ELSE Zero
        avg_win == avg_win_of(returns)
        avg_loss == avg_loss_of(returns)
        profit_factor == profit_factor_of(avg_win, avg_loss)
        kelly == kelly_of(win_rate, profit_factor)
        mar == IF max_drawdown = NaN THEN NaN
               ELSE RatDiv(total_return, RatMax(max_drawdown, Rat(1, One)))
        sum_abs == SumRat([i \in DOMAIN returns |-> RatAbs(returns[i])])
        lsr == IF sum_abs.n > 0 THEN RatDiv(SumRat(returns), sum_abs) ELSE Zero
        odds == RatAdd(Rat(50, 1), RatMul(kelly, Rat(50, 1)))
        daily_return == IF total_days > 0 THEN Sign(total_return) ELSE 0
    IN [positive_days |-> positive_days,
        total_days |-> total_days,
        total_return |-> total_return,
        variance |-> variance,
        volatility |-> Isqrt((One * One * variance.n) \div variance.d),
        sharpe |-> [sign |-> IF variance.n > 0 THEN Sign(mean) ELSE 0,
                    square |-> IF variance.n > 0
                               THEN RatDiv(RatMul(mean, mean), variance)
                               ELSE Zero],
        max_drawdown |-> max_drawdown,
        win_rate |-> win_rate,
        avg_win |-> avg_win,
        avg_loss |-> avg_loss,
        profit_factor |-> profit_factor,
        kelly |-> kelly,
        mar |-> mar,
        lsr |-> lsr,
        odds |-> odds,
        daily_return |-> [sign |-> daily_return],
        composite_score |->
            IF mar = NaN THEN NaN
            ELSE [sign |-> Sign(mar) * Sign(lsr) * Sign(odds) * daily_return],
        current_price |-> p[Len(p)],
        data_points |-> total_days]

calculate_performance_metrics_keepsNoReturns(p) ==
    IF Len(p) < min_rows THEN None
    ELSE IF Len(p) = 0 \/ AllZero(p) THEN None
    ELSE record_of(p)

\* the record built at lines 141-158, or None where the loop continues
calculate_performance_metrics(p) ==
    IF Len(p) < min_rows THEN None
    ELSE IF Len(p) = 0 \/ AllZero(p) THEN None
    ELSE IF Len(FiniteReturns(p)) = 0 THEN None
    ELSE record_of(p)

PriceSeries == UNION {[1..n -> 0..MaxPrice] : n \in 0..MaxSeries}

InitMetrics ==
    /\ max_allocation = 25
    /\ rebalance_threshold = 5
    /\ AllocIdle /\ PolicyIdle /\ MinerIdle /\ LoopIdle /\ RankIdle
    /\ prices \in PriceSeries
    /\ record = None
    /\ phase = "input"

Calculate ==
    /\ phase = "input"
    /\ record' = calculate_performance_metrics(prices)
    /\ phase' = "done"
    /\ UNCHANGED <<configVars, loopVars, allocVars, prices, policyVars, minerVars,
                   rankVars>>

NextMetrics == Calculate

SpecMetrics == InitMetrics /\ [][NextMetrics]_vars

\* C7 as stated: every record has data_points >= 5, and a series with fewer
\* than 5 valid returns gets no record.
C7_AtLeastFiveReturns ==
    (phase = "done" /\ record # None) => record.data_points >= 5

\* C7 as amended: a record exists exactly for a series of at least 5 rows,
\* not all zero, with at least one finite return; data_points counts the
\* finite returns (the rows followed by another row whose price is not 0),
\* so it is at least 1, and at most the number of rows less one.
C7_RecordNeedsFiveRows ==
    phase = "done" =>
        LET valid == {i \in 1..(Len(prices) - 1) : prices[i] # 0}
        IN /\ (record # None) <=> (Len(prices) >= 5 /\ valid # {})
           /\ record # None =>
                 /\ record.data_points = Cardinality(valid)
                 /\ record.data_points >= 1

\* a series of exactly 5 rows, none zero, has a record with 4 data points
C7_Witness ==
    /\ phase = "done" /\ Len(prices) = 5 /\ record # None
    /\ record.data_points = 4

\* returns of the series, as the code computes them
Returns == ReturnValues(prices)

\* C15: a series with no negative return and at least one positive return,
\* zero returns allowed, has avg_loss 0, profit_factor +infinity and kelly
\* equal to win_rate.
C15_NoLossMeansInfiniteFactor ==
    (/\ phase = "done" /\ record # None
     /\ \A i \in DOMAIN Returns : Returns[i].n >= 0
     /\ \E i \in DOMAIN Returns : Returns[i].n > 0)
        => /\ record.avg_loss = Zero
           /\ record.profit_factor = Inf
           /\ record.kelly = record.win_rate

(***************************************************************************)
(* should_rebalance, lines 250-271.                                        *)
(***************************************************************************)
cooldown_hours == 6

\* strategy.get(subnet, 0), as a numerator over s.d
Get(s, subnet) == IF subnet \in DOMAIN s.a THEN s.a[subnet] ELSE 0

\* set(current_strategy.keys()) | set(new_strategy.keys())
all_subnets(current, new) == DOMAIN current.a \cup DOMAIN new.a

\* the denominator the differences are taken over
DiffDen(current, new) == LCM(current.d, new.d)

\* diff = abs(new_alloc - current_alloc), as a numerator over DiffDen
diff(current, new, subnet) ==
    LET D == DiffDen(current, new)
    IN Abs(Get(new, subnet) * (D \div new.d)
           - Get(current, subnet) * (D \div current.d))

\* the loop of lines 263-269: max_diff = max(max_diff, diff), from 0
RECURSIVE max_diff_over(_, _, _)
max_diff_over(current, new, S) ==
    IF S = {} THEN 0
    ELSE LET subnet == CHOOSE x \in S : TRUE
         IN Max(max_diff_over(current, new, S \ {subnet}),
                diff(current, new, subnet))

max_diff(current, new) ==
    max_diff_over(current, new, all_subnets(current, new))

\* (datetime.now() - self.last_rebalance).total_seconds() / 3600
hours_since_rebalance(last, t) == t - TimeOf(last)

should_rebalance_thresholdFirst(current, new, last, t, threshold) ==
    IF IsEmpty(current) \/ IsEmpty(new) THEN TRUE
    ELSE IF max_diff(current, new) * One >= threshold * DiffDen(current, new)
         THEN TRUE
    ELSE FALSE

should_rebalance_cooldownFirst(current, new, last, t, threshold) ==
    IF last # Never /\ hours_since_rebalance(last, t) < cooldown_hours
    THEN FALSE
    ELSE IF IsEmpty(current) \/ IsEmpty(new) THEN TRUE
    ELSE max_diff(current, new) * One >= threshold * DiffDen(current, new)

should_rebalance_strictThreshold(current, new, last, t, threshold) ==
    IF IsEmpty(current) \/ IsEmpty(new) THEN TRUE
    ELSE IF last # Never /\ hours_since_rebalance(last, t) < cooldown_hours
         THEN FALSE
    ELSE max_diff(current, new) * One > threshold * DiffDen(current, new)

should_rebalance(current, new, last, t, threshold) ==
    IF IsEmpty(current) \/ IsEmpty(new) THEN TRUE
    ELSE IF last # Never /\ hours_since_rebalance(last, t) < cooldown_hours
         THEN FALSE
    ELSE max_diff(current, new) * One >= threshold * DiffDen(current, new)

(***************************************************************************)
(* Specification of the rebalance policy: should_rebalance on every pair   *)
(* of maps over the keys 0..MaxKey, in every state of the cooldown.        *)
(***************************************************************************)
Levels == {0, 5, 95}
Thresholds == {5, 10}

PolicyMaps ==
    UNION {{[a |-> f, d |-> One] : f \in [K -> Levels]} : K \in SUBSET (0..MaxKey)}

Timestamps(t) == {Never} \cup {At(u) : u \in 0..t}

InitPolicy ==
    /\ max_allocation = 25
    /\ rebalance_threshold \in Thresholds
    /\ AllocIdle /\ MetricIdle /\ MinerIdle /\ LoopIdle /\ RankIdle
    /\ now \in 0..MaxTime
    /\ last_rebalance \in Timestamps(now)
    /\ current_strategy \in PolicyMaps
    /\ new_strategy \in PolicyMaps
    /\ force_rebalance = FALSE
    /\ decision = FALSE
    /\ phase = "input"

Evaluate ==
    /\ phase = "input"
    /\ decision' = should_rebalance(current_strategy, new_strategy,
                                    last_rebalance, now, rebalance_threshold)
    /\ phase' = "done"
    /\ UNCHANGED <<configVars, loopVars, allocVars, metricVars, minerVars, rankVars,
                   now, last_rebalance, current_strategy, new_strategy,
                   force_rebalance>>

NextPolicy == Evaluate

SpecPolicy == InitPolicy /\ [][NextPolicy]_vars

\* the cooldown has not elapsed since the last acceptance
InCooldown == last_rebalance # Never /\ now - TimeOf(last_rebalance) < 6

BothNonEmpty == ~IsEmpty(current_strategy) /\ ~IsEmpty(new_strategy)

\* |new[k] - current[k]| >= p hundredths, a missing key counting as 0
DiffersBy(k, p) ==
    Abs(Get(new_strategy, k) * current_strategy.d
        - Get(current_strategy, k) * new_strategy.d) * One
      >= p * current_strategy.d * new_strategy.d

\* C1: with both maps non-empty and the cooldown (6 hours) not elapsed since
\* the last acceptance, should_rebalance returns REJECT for every pair of
\* maps, however large their difference.
C1_CooldownRejects ==
    (phase = "done" /\ BothNonEmpty /\ InCooldown) => decision = FALSE

C1_Witness ==
    /\ phase = "done" /\ BothNonEmpty /\ InCooldown
    /\ \E k \in 0..MaxKey : DiffersBy(k, 90)
    /\ decision = FALSE

\* C2: should_rebalance returns ACCEPT whenever the current map or the
\* proposed map is empty, in every cooldown state.
C2_EmptyAccepts ==
    (phase = "done" /\ (IsEmpty(current_strategy) \/ IsEmpty(new_strategy)))
        => decision = TRUE

\* an empty current map evaluated in the very hour of the last acceptance
C2_Witness ==
    /\ phase = "done" /\ IsEmpty(current_strategy) /\ ~IsEmpty(new_strategy)
    /\ last_rebalance = At(now)
    /\ decision = TRUE

\* C3: with both maps non-empty and the cooldown elapsed, or no acceptance
\* yet, should_rebalance returns ACCEPT exactly when some key of either map
\* differs by at least rebalance_threshold, a missing key counting as 0; two
\* identical maps are rejected.
C3_ThresholdDecides ==
    (phase = "done" /\ BothNonEmpty /\ ~InCooldown) =>
        /\ decision = (\E k \in DOMAIN current_strategy.a
                                 \cup DOMAIN new_strategy.a :
                            DiffersBy(k, rebalance_threshold))
        /\ (current_strategy = new_strategy => decision = FALSE)

\* a largest difference equal to the threshold, on a key of one map only,
\* is accepted once the cooldown has elapsed
C3_Witness ==
    /\ phase = "done" /\ BothNonEmpty
    /\ last_rebalance # Never /\ ~InCooldown
    /\ \E k \in DOMAIN new_strategy.a \ DOMAIN current_strategy.a :
          DiffersBy(k, rebalance_threshold)
    /\ \A k \in 0..MaxKey : ~DiffersBy(k, rebalance_threshold + 1)
    /\ decision = TRUE

(***************************************************************************)
(* The strategy file, save_strategy_to_file (lines 317-341) and the        *)
(* loading of the current strategy (optimizer lines 360-368, miner lines   *)
(* 76-85).                                                                 *)
(***************************************************************************)
Absent == [file |-> "absent"]
Unreadable == [file |-> "unreadable"]

\* eval(f.read()) where the file exists and parses, else {}
Load(f) == IF f \in {Absent, Unreadable} THEN EmptyStrategy ELSE f

Decimals == 10000

\* f"{allocation:.4f}": n/d rounded to 4 decimals, as a numerator over 10000
Round4(n, d) ==
    LET q1 == (n * One) \div d
        r1 == (n * One) % d
        q2 == (2 * One * r1 + d) \div (2 * d)
    IN q1 * One + q2

\* the map the written file reads back as: entries with v > 0.001, each
\* with 4 decimals
FileText(strategy) ==
    LET kept == {k \in DOMAIN strategy.a : strategy.a[k] * 1000 > strategy.d}
    IN Normalize([a |-> [k \in kept |-> Round4(strategy.a[k], strategy.d)],
                  d |-> Decimals])

\* what open() and the writes can do
IoOutcomes == {"written", "open_failed", "write_failed"}

save_strategy_to_file_writesEmpty(strategy, f, last, t, io) ==
    IF io = "written"
    THEN [ok |-> TRUE, file |-> FileText(strategy), last_rebalance |-> At(t)]
    ELSE IF io = "open_failed"
         THEN [ok |-> FALSE, file |-> f, last_rebalance |-> last]
    ELSE [ok |-> FALSE, file |-> Unreadable, last_rebalance |-> last]

save_strategy_to_file_keepsStamp(strategy, f, last, t, io) ==
    IF IsEmpty(strategy) THEN [ok |-> FALSE, file |-> f, last_rebalance |-> last]
    ELSE IF io = "written"
         THEN [ok |-> TRUE, file |-> FileText(strategy), last_rebalance |-> last]
    ELSE IF io = "open_failed"
         THEN [ok |-> FALSE, file |-> f, last_rebalance |-> last]
    ELSE [ok |-> FALSE, file |-> Unreadable, last_rebalance |-> last]

\* the returned value, the file and self.last_rebalance after the call; a
\* failed open leaves the file, a failed write leaves it truncated
save_strategy_to_file(strategy, f, last, t, io) ==
    IF IsEmpty(strategy) THEN [ok |-> FALSE, file |-> f, last_rebalance |-> last]
    ELSE IF io = "written"
         THEN [ok |-> TRUE, file |-> FileText(strategy), last_rebalance |-> At(t)]
    ELSE IF io = "open_failed"
         THEN [ok |-> FALSE, file |-> f, last_rebalance |-> last]
    ELSE [ok |-> FALSE, file |-> Unreadable, last_rebalance |-> last]

(***************************************************************************)
(* generate_strategy, lines 273-315.  A feed stands for what the data      *)
(* provider, calculate_performance_metrics and rank_subnets deliver: the   *)
(* metrics mapping (empty when the provider fails or has no rows) and the  *)
(* ranking of its entities.                                                *)
(***************************************************************************)
NoData == [ranked |-> <<>>, metrics |-> <<>>]

\* metrics of the entities 1..4, the last one with volatility v
FeedMetrics(v) == [i \in 1..4 |-> [volatility |-> IF i = 4 THEN v ELSE 1]]

\* no rows; every entity filtered out by the ranker; three or four entities
\* ranked, the fourth as calm as the others or more volatile
Feeds ==
    {NoData,
     [ranked |-> <<>>, metrics |-> FeedMetrics(1)],
     [ranked |-> <<1, 2, 3>>, metrics |-> FeedMetrics(1)],
     [ranked |-> <<1, 2, 3, 4>>, metrics |-> FeedMetrics(1)],
     [ranked |-> <<1, 2, 3, 4>>, metrics |-> FeedMetrics(7)]}

\* lines 279-299 on one feed
Generated(feed, maxalloc) ==
    IF DOMAIN feed.metrics = {} THEN EmptyStrategy
    ELSE calculate_optimal_allocation(feed.ranked, feed.metrics, maxalloc)

\* Generated, tabulated once over the feeds and the values of max_allocation
GeneratedTable ==
    [feed \in Feeds, maxalloc \in MaxAllocations |-> Generated(feed, maxalloc)]

generate_strategy(feed, maxalloc) == GeneratedTable[feed, maxalloc]

(***************************************************************************)
(* The miner: optimize_strategy (lines 65-127), should_optimize (lines     *)
(* 169-177), the calls of run_enhanced_miner and monitor_performance, and  *)
(* main() of the optimizer run from the command line on the same file.     *)
(***************************************************************************)
optimization_interval == 1

\* should_optimize()
should_optimize(last, t) ==
    IF last = Never THEN TRUE
    ELSE t - TimeOf(last) >= optimization_interval

Decide_forceLiftsCooldown(force, current, new, last, t, threshold) ==
    IF force THEN should_rebalance(current, new, Never, t, threshold)
    ELSE should_rebalance(current, new, last, t, threshold)

\* force_rebalance or self.strategy_optimizer.should_rebalance(...)
Decide(force, current, new, last, t, threshold) ==
    force \/ should_rebalance(current, new, last, t, threshold)

InitialFiles ==
    {Absent, [a |-> (1 :> 1 @@ 2 :> 1), d |-> 2]}

Init ==
    /\ max_allocation = 25
    /\ rebalance_threshold = 5
    /\ AllocIdle /\ MetricIdle /\ RankIdle /\ LoopIdle
    /\ phase = "run"
    /\ now = 0
    /\ last_rebalance = Never
    /\ current_strategy = EmptyStrategy /\ new_strategy = EmptyStrategy
    /\ force_rebalance = FALSE /\ decision = FALSE
    /\ file \in InitialFiles
    /\ pc = "start"
    /\ last_optimization = Never
    /\ strategy_history = <<>>
    /\ last_log = ""
    /\ cli_pc = "off"
    /\ cli_last_rebalance = Never

frame == <<configVars, loopVars, allocVars, metricVars, rankVars, phase>>

\* entry of optimize_strategy: the current strategy is loaded
BeginOptimize(force) ==
    /\ cli_pc = "off"
    /\ Len(strategy_history) < MaxHistory
    /\ force_rebalance' = force
    /\ current_strategy' = Load(file)
    /\ pc' = "generate"
    /\ UNCHANGED <<frame, now, last_rebalance, new_strategy, decision, file,
                   last_optimization, strategy_history, last_log, cli_pc,
                   cli_last_rebalance>>

\* leaving optimize_strategy: its locals are gone
Return ==
    /\ pc' = "idle"
    /\ current_strategy' = EmptyStrategy /\ new_strategy' = EmptyStrategy
    /\ force_rebalance' = FALSE /\ decision' = FALSE

\* run_enhanced_miner line 245: miner.optimize_strategy(force_rebalance=True)
StartMiner == pc = "start" /\ BeginOptimize(TRUE)

\* run_enhanced_miner lines 260-262
Scheduled ==
    /\ pc = "idle"
    /\ should_optimize(last_optimization, now)
    /\ BeginOptimize(FALSE)

\* self.emergency_rebalance_threshold, hundredths
emergency_rebalance_threshold == 15

\* 7-day returns monitor_performance can compute, hundredths
RecentReturns == {-16, -15, 0}

Monitor_notForced(recent_return) ==
    /\ pc = "idle"
    /\ IF recent_return < -emergency_rebalance_threshold
       THEN BeginOptimize(FALSE)
       ELSE cli_pc = "off" /\ UNCHANGED vars

\* monitor_performance, lines 129-167, where the recent data yield the
\* return recent_return: the emergency rebalancing of lines 161-164.  The
\* performance log is not held.
Monitor(recent_return) ==
    /\ pc = "idle"
    /\ IF recent_return < -emergency_rebalance_threshold
       THEN BeginOptimize(TRUE)
       ELSE cli_pc = "off" /\ UNCHANGED vars

\* optimize_strategy lines 87-92
Generate(feed) ==
    /\ cli_pc = "off"
    /\ pc = "generate"
    /\ LET s == generate_strategy(feed, max_allocation)
       IN IF IsEmpty(s)
          THEN /\ Return
               /\ last_log' = "No strategy generated"
          ELSE /\ new_strategy' = s
               /\ pc' = "evaluate"
               /\ UNCHANGED <<current_strategy, force_rebalance, decision,
                              last_log>>
    /\ UNCHANGED <<frame, now, last_rebalance, file, last_optimization,
                   strategy_history, cli_pc, cli_last_rebalance>>

EvaluateStep_stampsOnAccept ==
    /\ cli_pc = "off"
    /\ pc = "evaluate"
    /\ decision' = Decide(force_rebalance, current_strategy, new_strategy,
                          last_rebalance, now, rebalance_threshold)
    /\ last_rebalance' = IF decision' THEN At(now) ELSE last_rebalance
    /\ pc' = "apply"
    /\ UNCHANGED <<frame, now, current_strategy, new_strategy,
                   force_rebalance, file, last_optimization, strategy_history,
                   last_log, cli_pc, cli_last_rebalance>>

\* optimize_strategy lines 94-97
EvaluateStep ==
    /\ cli_pc = "off"
    /\ pc = "evaluate"
    /\ decision' = Decide(force_rebalance, current_strategy, new_strategy,
                          last_rebalance, now, rebalance_threshold)
    /\ pc' = "apply"
    /\ UNCHANGED <<frame, now, last_rebalance, current_strategy, new_strategy,
                   force_rebalance, file, last_optimization, strategy_history,
                   last_log, cli_pc, cli_last_rebalance>>

\* optimize_strategy lines 99-123
Apply(io) ==
    /\ cli_pc = "off"
    /\ pc = "apply"
    /\ IF decision
       THEN LET r == save_strategy_to_file(new_strategy, file, last_rebalance,
                                           now, io)
            IN /\ file' = r.file
               /\ last_rebalance' = r.last_rebalance
               /\ IF r.ok
                  THEN /\ strategy_history' = Append(strategy_history,
                              [timestamp |-> now,
                               old_empty |-> IsEmpty(current_strategy),
                               reason |-> IF force_rebalance THEN "forced"
                                          ELSE "automatic"])
                       /\ last_log' = "Strategy updated successfully"
                       /\ last_optimization' = At(now)
                  ELSE /\ last_log' = "Failed to save strategy"
                       /\ UNCHANGED <<strategy_history, last_optimization>>
       ELSE /\ io = "written"
            /\ last_log' = "No rebalancing needed"
            /\ last_optimization' = At(now)
            /\ UNCHANGED <<file, last_rebalance, strategy_history>>
    /\ Return
    /\ UNCHANGED <<frame, now, cli_pc, cli_last_rebalance>>

\* main(), lines 343-379: a fresh optimizer on the same strategy file.  The
\* two callers are serialized: main() runs while the miner is outside
\* optimize_strategy.
Main(feed, io) ==
    /\ cli_pc = "off"
    /\ pc \in {"start", "idle"}
    /\ LET current == Load(file)
           new == generate_strategy(feed, max_allocation)
       IN IF should_rebalance(current, new, Never, now, rebalance_threshold)
          THEN LET r == save_strategy_to_file(new, file, Never, now, io)
               IN /\ file' = r.file
                  /\ cli_last_rebalance' = r.last_rebalance
          ELSE /\ io = "written"
               /\ cli_last_rebalance' = Never
               /\ UNCHANGED file
    /\ cli_pc' = "exit"
    /\ UNCHANGED <<frame, now, last_rebalance, current_strategy, new_strategy,
                   force_rebalance, decision, pc, last_optimization,
                   strategy_history, last_log>>

\* main() returns and its optimizer is gone
MainExit ==
    /\ cli_pc = "exit"
    /\ cli_pc' = "off"
    /\ cli_last_rebalance' = Never
    /\ UNCHANGED <<frame, policyVars, file, pc, last_optimization,
                   strategy_history, last_log>>

\* an hour passes between two iterations of the loop, no main() running
Tick ==
    /\ cli_pc = "off"
    /\ pc = "idle"
    /\ now < MaxTime
    /\ now' = now + 1
    /\ UNCHANGED <<frame, last_rebalance, current_strategy, new_strategy,
                   force_rebalance, decision, minerVars>>

Next ==
    \/ StartMiner
    \/ Scheduled
    \/ \E recent_return \in RecentReturns : Monitor(recent_return)
    \/ \E feed \in Feeds : Generate(feed)
    \/ EvaluateStep
    \/ \E io \in IoOutcomes : Apply(io)
    \/ Tick
    \/ \E feed \in Feeds, io \in IoOutcomes : Main(feed, io)
    \/ MainExit

Spec == Init /\ [][Next]_vars

\* the threshold test of the policy on the maps of the running evaluation
ThresholdMet ==
    \E k \in DOMAIN current_strategy.a \cup DOMAIN new_strategy.a :
        DiffersBy(k, rebalance_threshold)

\* C4 as stated: the force flag only lifts the cooldown check, so a forced
\* evaluation of two non-empty maps inside the cooldown is accepted exactly
\* when the largest difference reaches rebalance_threshold.
C4_ForceOnlyLiftsCooldown ==
    (pc = "apply" /\ force_rebalance /\ BothNonEmpty /\ InCooldown)
        => decision = ThresholdMet

\* C4 as amended: a forced evaluation is accepted whatever the cooldown and
\* whatever the difference; cooldown and threshold decide the evaluations
\* that are not forced.
C4_ForceAcceptsAlways ==
    pc = "apply" =>
        IF force_rebalance THEN decision = TRUE
        ELSE IF IsEmpty(current_strategy) THEN decision = TRUE
        ELSE IF InCooldown THEN decision = FALSE
        ELSE decision = ThresholdMet

\* a forced evaluation inside the cooldown, of a proposal closer to the
\* current map than the threshold, is accepted
C4_Witness ==
    /\ pc = "apply" /\ force_rebalance /\ BothNonEmpty /\ InCooldown
    /\ ~ThresholdMet
    /\ decision = TRUE

\* C8: two reallocations accepted and saved by one optimizer are at least
\* the cooldown (6 hours) apart, unless the later one was forced or was
\* evaluated against an empty current map.
C8_CooldownBetweenAccepts ==
    \A i, j \in DOMAIN strategy_history :
        (/\ i < j
         /\ strategy_history[j].reason = "automatic"
         /\ ~strategy_history[j].old_empty)
        => strategy_history[j].timestamp - strategy_history[i].timestamp >= 6

\* an automatic reallocation against a non-empty current map, saved 6 hours
\* or more after the one before it
C8_Witness ==
    /\ Len(strategy_history) >= 2
    /\ strategy_history[2].reason = "automatic"
    /\ ~strategy_history[2].old_empty
    /\ strategy_history[2].timestamp - strategy_history[1].timestamp >= 6

\* C9: a cycle whose generate_strategy yields the empty map leaves the
\* strategy file and last_rebalance as they were, in optimize_strategy and in
\* main(); the miner's last_optimization is not advanced, so a scheduled
\* cycle is still due.
C9_EmptyCycleLeavesState ==
    [][\A feed \in Feeds :
          IsEmpty(generate_strategy(feed, max_allocation)) =>
             /\ Generate(feed) =>
                   /\ file' = file
                   /\ last_rebalance' = last_rebalance
                   /\ last_optimization' = last_optimization
                   /\ strategy_history' = strategy_history
                   /\ pc' = "idle"
                   /\ ~force_rebalance =>
                         should_optimize(last_optimization', now')
             /\ \A io \in IoOutcomes :
                   Main(feed, io) =>
                      /\ file' = file
                      /\ cli_last_rebalance' = Never
                      /\ last_rebalance' = last_rebalance
                      /\ last_optimization' = last_optimization]_vars

\* the miner is back in its loop after a cycle that generated nothing, the
\* saved strategy and the time of its acceptance still in place
C9_Witness ==
    /\ pc = "idle" /\ last_log = "No strategy generated"
    /\ file \notin {Absent, Unreadable} /\ ~IsEmpty(file)
    /\ last_rebalance # Never /\ now > TimeOf(last_rebalance)
    /\ last_optimization = last_rebalance

\* C10: the evaluation changes neither last_rebalance nor the two maps,
\* whatever it decides; last_rebalance changes only where
\* save_strategy_to_file has written a non-empty strategy, and then to the
\* time of the write.
C10_OnlySaveStamps ==
    [][/\ (pc = "evaluate" /\ pc' = "apply") =>
             /\ last_rebalance' = last_rebalance
             /\ current_strategy' = current_strategy
             /\ new_strategy' = new_strategy
       /\ last_rebalance' # last_rebalance =>
             /\ pc = "apply" /\ decision
             /\ ~IsEmpty(new_strategy)
             /\ file' = FileText(new_strategy)
             /\ last_rebalance' = At(now)
       /\ (cli_pc = "off" /\ cli_last_rebalance' # Never) =>
             /\ cli_last_rebalance' = At(now)
             /\ \E feed \in Feeds :
                   /\ ~IsEmpty(generate_strategy(feed, max_allocation))
                   /\ file' = FileText(generate_strategy(feed, max_allocation))
      ]_vars

\* should_rebalance has accepted, not forced, and last_rebalance is still
\* the time of the acceptance before
C10_Witness ==
    /\ pc = "apply" /\ ~force_rebalance /\ decision = TRUE
    /\ BothNonEmpty
    /\ last_rebalance # Never /\ now > TimeOf(last_rebalance)

(***************************************************************************)
(* rank_subnets, lines 162-203.  The metrics mapping is held as the        *)
(* sequence of its items, in iteration order; an item is                   *)
(* [netuid, m], m the record of that entity.  max_drawdown and volatility  *)
(* are in hundredths; the five scored columns are integers in a unit of    *)
(* their own, which the min-max normalisation removes.                     *)
(***************************************************************************)
MaxEntities == 3

min_data_points == 5
max_drawdown_limit == 80
max_volatility == 500

\* weights, hundredths
weights ==
    [composite_score |-> 30, sharpe |-> 25, mar |-> 20, win_rate |-> 15,
     emission |-> 10]

Scored == DOMAIN weights

passes_noVolatilityFilter(m) ==
    /\ m.data_points >= min_data_points
    /\ m.max_drawdown <= max_drawdown_limit

\* the three filters of lines 171-173
passes(m) ==
    /\ m.data_points >= min_data_points
    /\ m.max_drawdown <= max_drawdown_limit
    /\ m.volatility < max_volatility

\* df after the filters: the rows that pass, in the order of the mapping
filter_rows(items) == SelectSeq(items, LAMBDA it : passes(it.m))

Column(df, metric) == {df[i].m[metric] : i \in DOMAIN df}

\* df[metric].max() and df[metric].min(), df not empty
max_val(df, metric) ==
    CHOOSE x \in Column(df, metric) : \A y \in Column(df, metric) : y <= x
min_val(df, metric) ==
    CHOOSE x \in Column(df, metric) : \A y \in Column(df, metric) : x <= y

spread(df, metric) == max_val(df, metric) - min_val(df, metric)

\* the denominator the normalised columns are held over: twice the least
\* common multiple of the spreads that are not 0
NormDen(df) ==
    2 * LcmOver([metric \in Scored |->
                    IF spread(df, metric) > 0 THEN spread(df, metric) ELSE 1],
                Scored)

\* df[f'{metric}_norm'] of row i, lines 187-192, as a numerator over NormDen
norm(df, metric, i) ==
    IF spread(df, metric) > 0
    THEN (df[i].m[metric] - min_val(df, metric))
             * (NormDen(df) \div spread(df, metric))
    ELSE NormDen(df) \div 2

\* df['weighted_score'] of row i, lines 195-198, over 100 * NormDen
weighted_score(df, i) ==
    SumOver([metric \in Scored |-> weights[metric] * norm(df, metric, i)],
            Scored)

\* the row orders df.sort_values('weighted_score', ascending=False) can
\* leave, line 201: the scores do not increase.  The sort kind is the
\* default 'quicksort', which is not a stable sort, so rows of equal score
\* come in whatever order the sort of the build leaves them.
sort_values(df) ==
    IF df = <<>> THEN {<<>>}
    ELSE {p \in Permutations(DOMAIN df) :
             \A i, j \in DOMAIN df :
                 i < j => weighted_score(df, p[i]) >= weighted_score(df, p[j])}

\* the lists rank_subnets can return: df.index.tolist() of a sorted df
rank_subnets(items) ==
    IF items = <<>> THEN {<<>>}
    ELSE LET df == filter_rows(items)
         IN {[i \in DOMAIN p |-> df[p[i]].netuid] : p \in sort_values(df)}

\* the mapping whose items are given
MappingOf(items) ==
    [n \in {items[i].netuid : i \in DOMAIN items} |->
        (CHOOSE it \in Range(items) : it.netuid = n).m]

(***************************************************************************)
(* Specification of the ranker followed by the allocator, as               *)
(* generate_strategy chains them (lines 295-299), and of the allocator     *)
(* called with an empty mapping.                                           *)
(***************************************************************************)
Row(dp, dd, v, cs, sh, mr, wr, em) ==
    [data_points |-> dp, max_drawdown |-> dd, volatility |-> v,
     composite_score |-> cs, sharpe |-> sh, mar |-> mr, win_rate |-> wr,
     emission |-> em]

\* records that pass the filters, each one above the next in every scored
\* column or equal to it, and records that fail exactly one filter
Profiles ==
    {Row(5, 80, 1, 2, 2, 2, 2, 2),
     Row(9, 10, 499, 2, 0, 0, 0, 0),
     Row(5, 0, 24, 0, 0, 0, 0, 0),
     Row(4, 0, 1, 2, 2, 2, 2, 2),
     Row(5, 81, 1, 2, 2, 2, 2, 2),
     Row(5, 0, 500, 2, 2, 2, 2, 2)}

Injective(f) == \A i, j \in DOMAIN f : f[i] = f[j] => i = j

\* mappings of up to MaxEntities entities, in every iteration order
ItemLists ==
    UNION {{[i \in 1..n |-> [netuid |-> ids[i], m |-> ms[i]]] :
               ids \in {f \in [1..n -> 0..(MaxEntities - 1)] : Injective(f)},
               ms \in [1..n -> Profiles]} : n \in 0..MaxEntities}

InitRank ==
    /\ max_allocation = 25
    /\ rebalance_threshold = 5
    /\ MetricIdle /\ PolicyIdle /\ MinerIdle /\ LoopIdle
    /\ allocations = None /\ stages = None
    /\ market = <<>>
    /\ \/ /\ phase = "input"
          /\ metrics_items \in ItemLists
          /\ metrics = MappingOf(metrics_items)
          /\ ranked_subnets = <<>>
       \/ /\ phase = "direct"
          /\ metrics_items = <<>>
          /\ metrics = <<>>
          /\ ranked_subnets \in {<<1>>, <<0, 1>>}

\* ranked_subnets = self.rank_subnets(metrics), line 295
Rank ==
    /\ phase = "input"
    /\ ranked_subnets' \in rank_subnets(metrics_items)
    /\ phase' = "ranked"
    /\ UNCHANGED <<configVars, loopVars, metrics, allocations, stages, metricVars,
                   policyVars, minerVars, rankVars>>

\* strategy = self.calculate_optimal_allocation(ranked_subnets, metrics)
AllocateRanked ==
    /\ phase \in {"ranked", "direct"}
    /\ allocations' =
           calculate_optimal_allocation(ranked_subnets, metrics, max_allocation)
    /\ stages' = allocation_stages(ranked_subnets, metrics, max_allocation)
    /\ phase' = "done"
    /\ UNCHANGED <<configVars, loopVars, ranked_subnets, metrics, metricVars,
                   policyVars, minerVars, rankVars>>

NextRank == Rank \/ AllocateRanked

SpecRank == InitRank /\ [][NextRank]_vars

\* the items the three filters keep, and the score of an entity among them
Kept ==
    {i \in DOMAIN metrics_items :
        /\ metrics_items[i].m.data_points >= 5
        /\ metrics_items[i].m.max_drawdown <= 80
        /\ metrics_items[i].m.volatility < 500}

ScoreOf(netuid) ==
    LET df == SelectSeq(metrics_items, LAMBDA it : it.netuid \in
                            {metrics_items[i].netuid : i \in Kept})
        i == CHOOSE r \in DOMAIN df : df[r].netuid = netuid
    IN weighted_score(df, i)

\* position of an entity in the iteration order of the mapping
PositionOf(netuid) ==
    CHOOSE i \in DOMAIN metrics_items : metrics_items[i].netuid = netuid

Ranked == phase = "ranked"

\* C11: rank_subnets returns exactly the entities with data_points >= 5,
\* max_drawdown <= max_drawdown_limit and volatility < 5.0, each once, in
\* an order in which weighted_score does not increase; an entity failing a
\* filter is not in the output.
C11_FiltersThenOrder ==
    Ranked =>
        /\ Range(ranked_subnets) = {metrics_items[i].netuid : i \in Kept}
        /\ Len(ranked_subnets) = Cardinality(Kept)
        /\ \A i, j \in DOMAIN ranked_subnets :
              i < j => ScoreOf(ranked_subnets[i]) >= ScoreOf(ranked_subnets[j])

\* one of three entities is filtered out and the two others come out in the
\* reverse of their iteration order, the better one first
C11_Witness ==
    /\ Ranked /\ Len(metrics_items) = 3 /\ Len(ranked_subnets) = 2
    /\ ScoreOf(ranked_subnets[1]) > ScoreOf(ranked_subnets[2])
    /\ PositionOf(ranked_subnets[1]) > PositionOf(ranked_subnets[2])

\* C12: entities of equal weighted_score come out in the iteration order of
\* the input mapping.
C12_TiesKeepInputOrder ==
    Ranked =>
        \A i, j \in DOMAIN ranked_subnets :
            (i < j /\ ScoreOf(ranked_subnets[i]) = ScoreOf(ranked_subnets[j]))
                => PositionOf(ranked_subnets[i]) < PositionOf(ranked_subnets[j])

\* C13: rank_subnets returns [] for the empty mapping and for a mapping all
\* of whose entities are filtered out, and calculate_optimal_allocation
\* returns {} whenever the ranked list or the mapping is empty.
C13_EmptyIsAResult ==
    /\ (Ranked /\ (metrics_items = <<>> \/ Kept = {})) => ranked_subnets = <<>>
    /\ (phase = "done" /\ (ranked_subnets = <<>> \/ DOMAIN metrics = {}))
           => allocations = EmptyStrategy

\* every entity of a mapping that is not empty was filtered out, and the
\* allocator returned the empty map
C13_Witness ==
    /\ phase = "done" /\ metrics_items # <<>> /\ Kept = {}
    /\ ranked_subnets = <<>> /\ allocations = EmptyStrategy

\* the allocator returned the empty map for a ranked list and no metrics
C13_WitnessNoMetrics ==
    /\ phase = "done" /\ ranked_subnets # <<>> /\ DOMAIN metrics = {}
    /\ allocations = EmptyStrategy


(***************************************************************************)
(* generate_strategy from the market data to the strategy, lines 279-299,  *)
(* for a market of two entities.  An item of the market is the price       *)
(* column of one entity, sorted by date, and its emission, the same on     *)
(* every row; the items come in the order of the netuids (line 69).        *)
(*                                                                         *)
(* The frame of rank_subnets holds integers.  max_drawdown goes into it in *)
(* hundredths rounded up and volatility in hundredths rounded down, which  *)
(* keeps the two filters exact.  The min-max normalisation of a column of  *)
(* at most two rows depends on the order of its values only, so a scored   *)
(* column goes into the frame as the place of each value in the exact      *)
(* order of the column.                                                    *)
(***************************************************************************)
\* NaN <= limit does not hold: NaN goes in as a value above the limit
CeilHundredths(x) ==
    IF x = NaN THEN max_drawdown_limit + 1
    ELSE (x.n * One + x.d - 1) \div x.d

\* x < y on the values of a scored column
Less(metric, x, y) ==
    IF x = NaN \/ y = NaN THEN FALSE
    ELSE IF metric = "sharpe"
         THEN \/ x.sign < y.sign
              \/ x.sign = y.sign /\ x.sign = 1 /\ RatLess(x.square, y.square)
              \/ x.sign = y.sign /\ x.sign = -1 /\ RatLess(y.square, x.square)
    ELSE IF metric = "composite_score" THEN x.sign < y.sign
    ELSE RatLess(x, y)

\* two composite scores of the same sign: the model does not hold their
\* sizes, and leaves their order open
Undecided(metric, x, y) ==
    /\ metric = "composite_score"
    /\ x # NaN /\ y # NaN
    /\ x.sign = y.sign /\ x.sign # 0

\* the places the values of one scored column can take
ColumnCodes(raw, metric) ==
    {c \in [DOMAIN raw -> 0..(Len(raw) - 1)] :
        /\ \E i \in DOMAIN raw : c[i] = 0
        /\ \A i, j \in DOMAIN raw :
              LET x == raw[i][metric]
                  y == raw[j][metric]
              IN /\ Less(metric, x, y) => c[i] < c[j]
                 /\ (/\ ~Less(metric, x, y) /\ ~Less(metric, y, x)
                     /\ ~Undecided(metric, x, y)) => c[i] = c[j]}

Codes(raw) ==
    {c \in [Scored -> [DOMAIN raw -> 0..(Len(raw) - 1)]] :
        \A metric \in Scored : c[metric] \in ColumnCodes(raw, metric)}

\* the entities that get a record, lines 86-104, in the order of the market
Analysed(mkt) ==
    SelectSeq(mkt, LAMBDA it : calculate_performance_metrics(it.prices) # None)

\* metrics[netuid] of lines 141-158 for the items that get a record
RawMetrics(kept) ==
    [i \in DOMAIN kept |->
        calculate_performance_metrics(kept[i].prices)
            @@ [emission |-> Rat(kept[i].emission, 1)]]

\* strictly increasing series, and strictly decreasing ones.  Every one has
\* four equal returns and a fifth one chosen so that the volatility is a
\* whole number of hundredths: 0, 0.40, 5.20 and 0.02 for the increasing
\* ones, 0, 0.02, 0.10 and 0 for the decreasing ones
IncreasingSeries ==
    {<<1, 2, 4, 8, 16, 32>>, <<1, 2, 4, 8, 16, 48>>, <<1, 2, 4, 8, 16, 240>>,
     <<625, 750, 900, 1080, 1296, 1620>>}
DecreasingSeries ==
    {<<3125, 2500, 2000, 1600, 1280, 1024>>,
     <<3125, 2500, 2000, 1600, 1280, 1088>>,
     <<3125, 2500, 2000, 1600, 1280, 704>>,
     <<32, 16, 8, 4, 2, 1>>}

MarketIds == 0..2
Emissions == {0, 1}

InitMarket ==
    /\ max_allocation = 25
    /\ rebalance_threshold = 5
    /\ MetricIdle /\ PolicyIdle /\ MinerIdle /\ LoopIdle
    /\ metrics_items = <<>> /\ ranked_subnets = <<>> /\ metrics = <<>>
    /\ allocations = None /\ stages = None
    /\ \E a, b \in MarketIds, pa \in IncreasingSeries, pb \in DecreasingSeries,
          ea, eb \in Emissions :
          /\ a # b
          /\ LET ia == [netuid |-> a, prices |-> pa, emission |-> ea]
                 ib == [netuid |-> b, prices |-> pb, emission |-> eb]
             IN market = IF a < b THEN <<ia, ib>> ELSE <<ib, ia>>
    /\ phase = "market"

\* lines 279-290: the metrics of the market, or {} for the strategy
Analyse ==
    /\ phase = "market"
    /\ \E kept \in {Analysed(market)} :
       \E raw \in {RawMetrics(kept)} :
          IF kept = <<>>
          THEN /\ allocations' = EmptyStrategy
               /\ phase' = "done"
               /\ UNCHANGED <<metrics_items, metrics>>
          ELSE /\ \E c \in Codes(raw) :
                     metrics_items' =
                         [i \in DOMAIN kept |->
                             [netuid |-> kept[i].netuid,
                              m |-> Row(raw[i].data_points,
                                        CeilHundredths(raw[i].max_drawdown),
                                        raw[i].volatility,
                                        c["composite_score"][i],
                                        c["sharpe"][i], c["mar"][i],
                                        c["win_rate"][i], c["emission"][i])]]
               /\ metrics' = MappingOf(metrics_items')
               /\ phase' = "input"
               /\ UNCHANGED allocations
    /\ UNCHANGED <<configVars, loopVars, market, ranked_subnets, stages, metricVars,
                   policyVars, minerVars>>

NextMarket == Analyse \/ Rank \/ AllocateRanked

SpecMarket == InitMarket /\ [][NextMarket]_vars

Increasing(p) == \A i \in 1..(Len(p) - 1) : p[i] < p[i + 1]

\* entity A, whose price rises, and entity B, whose price falls
EntityA == (CHOOSE it \in Range(market) : Increasing(it.prices)).netuid
EntityB == (CHOOSE it \in Range(market) : ~Increasing(it.prices)).netuid

\* C14: A is ranked first and gets a larger allocation than B, or B is
\* excluded because its drawdown exceeds the ceiling.
C14_RisingBeatsFalling ==
    phase = "done" =>
        \/ /\ ranked_subnets # <<>>
           /\ ranked_subnets[1] = EntityA
           /\ Get(allocations, EntityA) > Get(allocations, EntityB)
        \/ /\ EntityB \notin Range(ranked_subnets)
           /\ metrics[EntityB].max_drawdown > max_drawdown_limit


\* the last entry of the history: the last strategy the miner saved
LastSaved == strategy_history[Len(strategy_history)]

\* The initial optimization runs at time 0: a forced entry stamped later
\* was saved by an emergency rebalancing.  The cooldown it opened is running.
InEmergencyCooldown ==
    /\ strategy_history # <<>>
    /\ LastSaved.reason = "forced" /\ LastSaved.timestamp > 0
    /\ last_rebalance = At(LastSaved.timestamp)
    /\ now - LastSaved.timestamp < 6

\* a 7-day return below -15% starts a forced optimization; the forced
\* evaluation accepts inside the cooldown as well; the save replaces the
\* file and stamps last_rebalance
EmergencySteps ==
    /\ \A r \in RecentReturns :
          (r < -15 /\ Monitor(r)) =>
              /\ pc' = "generate" /\ force_rebalance' = TRUE
              /\ current_strategy' = Load(file)
    /\ (pc = "evaluate" /\ force_rebalance /\ pc' = "apply")
           => decision' = TRUE
    /\ (pc = "apply" /\ force_rebalance /\ Apply("written")) =>
           /\ file' = FileText(new_strategy) /\ ~IsEmpty(file')
           /\ last_rebalance' = At(now)

\* C16 as stated: an emergency (a 7-day return below -15%) runs a forced
\* optimization whose non-empty strategy, once saved, replaces the current
\* one even inside the cooldown; the save resets last_rebalance, so every
\* evaluation that is not forced is rejected in the 6 hours that follow.
C16_EmergencyThenCooldown ==
    [][/\ EmergencySteps
       /\ (pc = "evaluate" /\ ~force_rebalance /\ InEmergencyCooldown
             /\ pc' = "apply") => decision' = FALSE]_vars

\* C16 as amended: the same, the evaluation that is not forced being
\* rejected in the 6 hours that follow when the current strategy it loaded
\* is not empty; it is accepted when the file has been lost or left
\* unreadable since the save.
C16_EmergencyOverridesCooldown ==
    [][/\ EmergencySteps
       /\ (pc = "evaluate" /\ ~force_rebalance /\ InEmergencyCooldown
             /\ pc' = "apply")
            => decision' = IsEmpty(current_strategy)]_vars

\* an emergency rebalancing was saved inside the cooldown of the save
\* before it, and its strategy is the one on file
C16_Witness ==
    /\ pc = "idle" /\ last_log = "Strategy updated successfully"
    /\ Len(strategy_history) = 2
    /\ LastSaved.reason = "forced"
    /\ LastSaved.timestamp - strategy_history[1].timestamp < 6
    /\ last_rebalance = At(now) /\ now = LastSaved.timestamp
    /\ file \notin {Absent, Unreadable} /\ ~IsEmpty(file)

\* an evaluation that is not forced was rejected inside the cooldown an
\* emergency rebalancing opened
C16_WitnessRejected ==
    /\ pc = "apply" /\ ~force_rebalance /\ InEmergencyCooldown
    /\ BothNonEmpty /\ ThresholdMet
    /\ decision = FALSE

(***************************************************************************)
(* The main loop of run_enhanced_miner (lines 247-286).  step counts the   *)
(* iterations that reached line 279.  One iteration is the submission      *)
(* check, the three scheduled blocks and the sleep, in that order; the     *)
(* calls of the iteration that can raise outside a handler of their own    *)
(* are etc.isnew and api.rev of the submission check: optimize_strategy    *)
(* and monitor_performance catch Exception in their whole body (lines 125  *)
(* and 166), etc.update is called inside the try of line 270, and          *)
(* should_optimize is arithmetic.  What the tasks do to the strategy is    *)
(* the subject of Spec; here a task is held by the number of its runs at   *)
(* the current step value and by what it leaves in last_optimization.      *)
(* The logging of lines 256-257 holds no state.                            *)
(***************************************************************************)
MaxStep == 12

optimize_every == 3600
monitor_every == 600
update_every == 3600

\* what etc.isnew and api.rev do in one iteration (lines 250-253)
SubmissionOutcomes == {"old", "submitted", "raised"}
\* etc.update(): 0 is an update to install, 1 is none, or it raises
UpdateOutcomes == {"0", "1", "raised"}

\* the values a run of optimize_strategy can leave in last_optimization:
\* time.time() on lines 115 and 122, the old value on every other return
AfterOptimize(last, t) == {last, At(t)}

\* time.sleep: the clock of the model has passed a whole hour or not
Elapse == now' \in {now} \cup (IF now < MaxTime THEN {now + 1} ELSE {})

\* every variable the loop leaves alone
loopRest == <<configVars, allocVars, metricVars, rankVars, phase,
              last_rebalance, current_strategy, new_strategy,
              force_rebalance, decision, file, pc, strategy_history,
              last_log, cli_pc, cli_last_rebalance>>

\* lines 239-245: step = 0, and the initial forced optimization has set
\* last_optimization or has failed
InitLoop ==
    /\ max_allocation = 25
    /\ rebalance_threshold = 5
    /\ AllocIdle /\ MetricIdle /\ RankIdle /\ PolicyIdle
    /\ phase = "loop"
    /\ file = None /\ pc = "off" /\ strategy_history = <<>> /\ last_log = ""
    /\ cli_pc = "off" /\ cli_last_rebalance = Never
    /\ last_optimization \in AfterOptimize(Never, 0)
    /\ step = 0
    /\ loop_pc = "isnew"
    /\ task_runs = NoRuns
    /\ retried = FALSE

Ran(task) == [task_runs EXCEPT ![task] = @ + 1]

\* lines 250-253
CheckSubmission(outcome) ==
    /\ loop_pc = "isnew"
    /\ loop_pc' = IF outcome = "raised" THEN "handler" ELSE "optimize"
    /\ IF outcome = "submitted" THEN Elapse ELSE now' = now
    /\ UNCHANGED <<loopRest, last_optimization, step, task_runs, retried>>

\* lines 260-262
OptimizationCheck ==
    /\ loop_pc = "optimize"
    /\ IF step % optimize_every = 0 /\ should_optimize(last_optimization, now)
       THEN /\ task_runs' = Ran("optimize")
            /\ last_optimization' \in AfterOptimize(last_optimization, now)
       ELSE UNCHANGED <<task_runs, last_optimization>>
    /\ loop_pc' = "monitor"
    /\ UNCHANGED <<loopRest, now, step, retried>>

\* lines 265-266; monitor_performance may run a forced optimization
Monitoring ==
    /\ loop_pc = "monitor"
    /\ IF step % monitor_every = 0
       THEN /\ task_runs' = Ran("monitor")
            /\ last_optimization' \in AfterOptimize(last_optimization, now)
       ELSE UNCHANGED <<task_runs, last_optimization>>
    /\ loop_pc' = "update"
    /\ UNCHANGED <<loopRest, now, step, retried>>

\* lines 269-276: exit() ends the process, the handler of line 275 takes
\* what etc.update raises
UpdateCheck(err) ==
    /\ loop_pc = "update"
    /\ IF step % update_every = 0
       THEN /\ task_runs' = Ran("update")
            /\ loop_pc' = IF err = "0" THEN "stopped" ELSE "sleep"
       ELSE /\ err = "1"
            /\ loop_pc' = "sleep"
            /\ UNCHANGED task_runs
    /\ UNCHANGED <<loopRest, now, last_optimization, step, retried>>

\* the handler line 284-286 as it would be with the increment of line 279
HandleError_advancesStep ==
    /\ loop_pc = "handler"
    /\ step < MaxStep
    /\ Elapse
    /\ step' = step + 1
    /\ task_runs' = NoRuns
    /\ retried' = TRUE
    /\ loop_pc' = "isnew"
    /\ UNCHANGED <<loopRest, last_optimization>>

\* lines 284-286: the error is logged, the loop sleeps and goes on
HandleError ==
    /\ loop_pc = "handler"
    /\ Elapse
    /\ retried' = TRUE
    /\ loop_pc' = "isnew"
    /\ UNCHANGED <<loopRest, last_optimization, step, task_runs>>

\* lines 278-279
Advance ==
    /\ loop_pc = "sleep"
    /\ step < MaxStep
    /\ Elapse
    /\ step' = step + 1
    /\ task_runs' = NoRuns
    /\ retried' = FALSE
    /\ loop_pc' = "isnew"
    /\ UNCHANGED <<loopRest, last_optimization>>

\* lines 281-283: KeyboardInterrupt in the try block ends the loop
Interrupt ==
    /\ loop_pc \in {"isnew", "optimize", "monitor", "update", "sleep"}
    /\ loop_pc' = "stopped"
    /\ UNCHANGED <<loopRest, now, last_optimization, step, task_runs, retried>>

NextLoop ==
    \/ \E outcome \in SubmissionOutcomes : CheckSubmission(outcome)
    \/ OptimizationCheck
    \/ Monitoring
    \/ \E err \in UpdateOutcomes : UpdateCheck(err)
    \/ HandleError
    \/ Advance
    \/ Interrupt

SpecLoop == InitLoop /\ [][NextLoop]_vars

Tasks == {"optimize", "monitor", "update"}

\* no scheduled task has run twice at the step value of the next state
OncePerStep == \A task \in Tasks : task_runs'[task] <= 1

\* the step in which the handler hands control back to the loop
Handled == loop_pc = "handler" /\ loop_pc' = "isnew"

\* C19: the tasks scheduled for a step value run at most once per step
\* value, and after an unexpected exception in an iteration the loop still
\* advances the step counter
C19_StepAdvancesAfterError ==
    [][OncePerStep /\ (Handled => step' = step + 1)]_vars

\* C19, amended: the tasks scheduled for a step value run at most once per
\* step value; after an unexpected exception the loop goes on with the same
\* step value, and the counter moves only by one, at the end of an
\* iteration that raised nothing
C19_RetriesSameStep ==
    [][/\ OncePerStep
       /\ Handled => step' = step
       /\ step' # step => (loop_pc = "sleep" /\ step' = step + 1)]_vars

\* an iteration of step 0 has raised, the next one has run the three tasks
C19_Witness ==
    /\ retried /\ step = 0 /\ loop_pc = "sleep"
    /\ task_runs = [optimize |-> 1, monitor |-> 1, update |-> 1]

====
